---- MODULE Spec2Model ----
(***************************************************************************)
(* The adaptive concurrency limiter of grpc/grpcserver/concurrency.go.     *)
(*                                                                         *)
(* The limiter holds two int64 fields, limit and inflight, behind one      *)
(* sync.Mutex, and a constant backoffRatio.  start() admits or rejects a   *)
(* request; finish() adjusts the limit by AIMD from the outcome of the     *)
(* request.  Limiter() wraps both around a unary gRPC handler.             *)
(*                                                                         *)
(* The specifications, all over the same state:                            *)
(*   Spec             the interceptor closure returned by Limiter(), run   *)
(*                    by NumReqs concurrent request goroutines;            *)
(*   SpecLimiter      the methods start and finish called directly,        *)
(*                    finish with any error value, by NumReqs callers;     *)
(*   SpecBurst        SpecLimiter with a history of the changes of limit;  *)
(*   SpecLimiterFair  start and finish called directly under fair          *)
(*                    scheduling;                                          *)
(*   SpecScenario     six callers on Limiter(4, 0.5).                      *)
(*                                                                         *)
(* Requests are numbered in the order in which they acquire the mutex in   *)
(* start(): request p is the p-th call of start().                         *)
(***************************************************************************)
EXTENDS Integers, FiniteSets, TLC

\* ------------------------------------------------------------------ bounds

\* Number of requests (goroutines entering the interceptor / callers of start).
NumReqs == 3

\* Largest value of the `initial` argument of Limiter().
MaxInitial == 2

Procs == 1..NumReqs

\* ------------------------------------------------------------------ values

\* backoffRatio values, as exact fractions <<numerator, denominator>>: 0.5,
\* 0.1 and 0.75.  For these three float64 values and every limit the model
\* reaches, int64(float64(limit) * ratio) equals (limit * num) \div den.
Ratios == {<<1, 2>>, <<1, 10>>, <<3, 4>>}

\* Error values a handler may return: nil, an error that carries no gRPC
\* status ("plain"), and status errors, named by their code.
Errs == {"nil", "plain", "Canceled", "DeadlineExceeded", "Unavailable", "Internal"}

\* One error of each class of the switch in finish.
ScenarioErrs == {"DeadlineExceeded", "nil"}

\* status.Code(err): nil is OK, an error without a status is Unknown, a
\* status error has its own code.
Code(e) ==
    CASE e = "nil" -> "OK"
      [] e = "plain" -> "Unknown"
      [] OTHER -> e

\* A switch that also takes codes.Unknown for an overload.
OverloadCodesWithUnknown == {"Canceled", "DeadlineExceeded", "Unavailable", "Unknown"}

\* The case labels of the switch in finish.
OverloadCodes == {"Canceled", "DeadlineExceeded", "Unavailable"}

\* The nil *transaction.
NoTx == [inflight |-> 0, limit |-> 0]

\* The mutex is held by a request, or by nobody.
Free == 0

VARIABLES
    initial,        \* the `initial` argument of Limiter()
    backoffRatio,   \* limiter.backoffRatio
    limit,          \* limiter.limit
    inflight,       \* limiter.inflight
    mutex,          \* limiter.Mutex: its holder, or Free
    pc,             \* where each request is in the interceptor
    tx,             \* the *transaction start() returned to each request
    err,            \* the interceptor's named result err, per request
    farg,           \* the err argument of the (deferred) call of finish
    nStart,         \* calls of l.start() per request
    nHandler,       \* calls of handler(ctx, req) per request
    nFinish,        \* calls of l.finish() per request
    last,           \* the last body of start or finish that ran, and the
                    \* limiter's fields as that body found them
    hist            \* history, kept by SpecBurst only: the number of
                    \* finishes that raised the limit, and that number as
                    \* it was when each request was admitted and when its
                    \* finish lowered the limit

vars == <<initial, backoffRatio, limit, inflight, mutex, pc, tx, err, farg,
          nStart, nHandler, nFinish, last, hist>>

\* The history before any step.
NoHist ==
    [raises |-> 0,
     atAdmit |-> [p \in Procs |-> 0],
     atLower |-> [p \in Procs |-> -1]]

\* limiter fields and the construction arguments
Init ==
    /\ initial \in 1..MaxInitial
    /\ backoffRatio \in Ratios
    /\ limit = initial
    /\ inflight = 0
    /\ mutex = Free
    /\ pc = [p \in Procs |-> "start"]
    /\ tx = [p \in Procs |-> NoTx]
    /\ err = [p \in Procs |-> "nil"]
    /\ farg = [p \in Procs |-> "nil"]
    /\ nStart = [p \in Procs |-> 0]
    /\ nHandler = [p \in Procs |-> 0]
    /\ nFinish = [p \in Procs |-> 0]
    /\ last = [op |-> "none", p |-> 0, limit |-> 0, inflight |-> 0, err |-> "nil"]
    /\ hist = NoHist

\* ------------------------------------------------------------ limiter.start

\* l.Lock() in start.  Request p is the p-th to enter start.
StartLock(p) ==
    /\ pc[p] = "start"
    /\ \A q \in Procs : q < p => pc[q] # "start"
    /\ mutex = Free
    /\ mutex' = p
    /\ pc' = [pc EXCEPT ![p] = "start_cs"]
    /\ nStart' = [nStart EXCEPT ![p] = @ + 1]
    /\ UNCHANGED <<initial, backoffRatio, limit, inflight, tx, err, farg,
                   nHandler, nFinish, last>>

\* A start that rejects at the limit instead of above it.
AdmitsBelow(inf, lim) == inf < lim

\* A start that admits one request more.
AdmitsOnePast(inf, lim) == ~(inf > lim + 1)

\* The admission test of start.
Admits(inf, lim) == ~(inf > lim)

\* A start that counts the request before it tests the limit.
StartBodyCountsFirst(p) ==
    /\ pc[p] = "start_cs"
    /\ mutex = p
    /\ inflight' = inflight + 1
    /\ IF Admits(inflight + 1, limit)
         THEN /\ tx' = [tx EXCEPT ![p] = [inflight |-> inflight + 1, limit |-> limit]]
              /\ pc' = [pc EXCEPT ![p] = "admitted"]
         ELSE /\ tx' = tx
              /\ pc' = [pc EXCEPT ![p] = "rejected"]
    /\ mutex' = Free
    /\ last' = [op |-> "start", p |-> p, limit |-> limit, inflight |-> inflight,
                err |-> "nil"]
    /\ UNCHANGED <<initial, backoffRatio, limit, err, farg, nStart, nHandler, nFinish>>

\* A start whose transaction records inflight as it was before the increment.
StartBodyStaleTicket(p) ==
    /\ pc[p] = "start_cs"
    /\ mutex = p
    /\ IF Admits(inflight, limit)
         THEN /\ inflight' = inflight + 1
              /\ tx' = [tx EXCEPT ![p] = [inflight |-> inflight, limit |-> limit]]
              /\ pc' = [pc EXCEPT ![p] = "admitted"]
         ELSE /\ inflight' = inflight
              /\ tx' = tx
              /\ pc' = [pc EXCEPT ![p] = "rejected"]
    /\ mutex' = Free
    /\ last' = [op |-> "start", p |-> p, limit |-> limit, inflight |-> inflight,
                err |-> "nil"]
    /\ UNCHANGED <<initial, backoffRatio, limit, err, farg, nStart, nHandler, nFinish>>

\* A start that raises the limit when it rejects.
StartBodyGrowsOnReject(p) ==
    /\ pc[p] = "start_cs"
    /\ mutex = p
    /\ IF Admits(inflight, limit)
         THEN /\ inflight' = inflight + 1
              /\ limit' = limit
              /\ tx' = [tx EXCEPT ![p] = [inflight |-> inflight + 1, limit |-> limit]]
              /\ pc' = [pc EXCEPT ![p] = "admitted"]
         ELSE /\ inflight' = inflight
              /\ limit' = limit + 1
              /\ tx' = tx
              /\ pc' = [pc EXCEPT ![p] = "rejected"]
    /\ mutex' = Free
    /\ last' = [op |-> "start", p |-> p, limit |-> limit, inflight |-> inflight,
                err |-> "nil"]
    /\ UNCHANGED <<initial, backoffRatio, err, farg, nStart, nHandler, nFinish>>

\* A start that returns from its rejecting path with the mutex held.
StartBodyKeepsLockOnReject(p) ==
    /\ pc[p] = "start_cs"
    /\ mutex = p
    /\ IF Admits(inflight, limit)
         THEN /\ inflight' = inflight + 1
              /\ tx' = [tx EXCEPT ![p] = [inflight |-> inflight + 1, limit |-> limit]]
              /\ pc' = [pc EXCEPT ![p] = "admitted"]
              /\ mutex' = Free
         ELSE /\ inflight' = inflight
              /\ tx' = tx
              /\ pc' = [pc EXCEPT ![p] = "rejected"]
              /\ mutex' = mutex
    /\ last' = [op |-> "start", p |-> p, limit |-> limit, inflight |-> inflight,
                err |-> "nil"]
    /\ UNCHANGED <<initial, backoffRatio, limit, err, farg, nStart, nHandler, nFinish>>

\* The body of start and its deferred l.Unlock().
StartBody(p) ==
    /\ pc[p] = "start_cs"
    /\ mutex = p
    /\ IF Admits(inflight, limit)
         THEN /\ inflight' = inflight + 1
              /\ tx' = [tx EXCEPT ![p] = [inflight |-> inflight + 1, limit |-> limit]]
              /\ pc' = [pc EXCEPT ![p] = "admitted"]
         ELSE /\ inflight' = inflight
              /\ tx' = tx
              /\ pc' = [pc EXCEPT ![p] = "rejected"]
    /\ mutex' = Free
    /\ last' = [op |-> "start", p |-> p, limit |-> limit, inflight |-> inflight,
                err |-> "nil"]
    /\ UNCHANGED <<initial, backoffRatio, limit, err, farg, nStart, nHandler, nFinish>>

\* ----------------------------------------------------------- limiter.finish

\* A backoff without the clamp at 1.
BackoffNoClamp(lim, ratio) == (lim * ratio[1]) \div ratio[2]

\* int64(float64(l.limit) * l.backoffRatio), clamped below at 1.
Backoff(lim, ratio) ==
    LET scaled == (lim * ratio[1]) \div ratio[2]
    IN  IF scaled < 1 THEN 1 ELSE scaled

\* A finish that backs off on every overload, whatever the transaction saw.
NewLimitUnguarded(lim, inf, t, e, ratio) ==
    IF Code(e) \in OverloadCodes
      THEN Backoff(lim, ratio)
      ELSE IF inf > lim \div 2 THEN lim + 1 ELSE lim

\* A finish whose increase gate is inflight >= limit/2.
NewLimitGateAtHalf(lim, inf, t, e, ratio) ==
    IF Code(e) \in OverloadCodes
      THEN IF lim >= t.limit THEN Backoff(lim, ratio) ELSE lim
      ELSE IF inf >= lim \div 2 THEN lim + 1 ELSE lim

\* A finish whose increase gate reads the inflight count of the transaction
\* instead of the limiter's.
NewLimitGateOnTicket(lim, inf, t, e, ratio) ==
    IF Code(e) \in OverloadCodes
      THEN IF lim >= t.limit THEN Backoff(lim, ratio) ELSE lim
      ELSE IF t.inflight > lim \div 2 THEN lim + 1 ELSE lim

\* A finish that raises the limit by 2.
NewLimitStepTwo(lim, inf, t, e, ratio) ==
    IF Code(e) \in OverloadCodes
      THEN IF lim >= t.limit THEN Backoff(lim, ratio) ELSE lim
      ELSE IF inf > lim \div 2 THEN lim + 2 ELSE lim

\* The limit finish leaves, from the fields it finds, the transaction and the
\* error it is given.
NewLimit(lim, inf, t, e, ratio) ==
    IF Code(e) \in OverloadCodes
      THEN IF lim >= t.limit THEN Backoff(lim, ratio) ELSE lim
      ELSE IF inf > lim \div 2 THEN lim + 1 ELSE lim

\* What finish does to inflight.
InflightAfterFinish(inf) == inf

\* A finish that enters its body without taking the mutex.
FinishLockMissing(p) ==
    /\ pc[p] = "finish"
    /\ pc' = [pc EXCEPT ![p] = "finish_cs"]
    /\ nFinish' = [nFinish EXCEPT ![p] = @ + 1]
    /\ UNCHANGED <<initial, backoffRatio, limit, inflight, mutex, tx, err, farg,
                   nStart, nHandler, last>>

\* l.Lock() in finish.
FinishLock(p) ==
    /\ pc[p] = "finish"
    /\ mutex = Free
    /\ mutex' = p
    /\ pc' = [pc EXCEPT ![p] = "finish_cs"]
    /\ nFinish' = [nFinish EXCEPT ![p] = @ + 1]
    /\ UNCHANGED <<initial, backoffRatio, limit, inflight, tx, err, farg,
                   nStart, nHandler, last>>

\* The body of finish and its deferred l.Unlock().
FinishBody(p) ==
    /\ pc[p] = "finish_cs"
    /\ mutex = p
    /\ limit' = NewLimit(limit, inflight, tx[p], farg[p], backoffRatio)
    /\ inflight' = InflightAfterFinish(inflight)
    /\ mutex' = Free
    /\ pc' = [pc EXCEPT ![p] = "done"]
    /\ last' = [op |-> "finish", p |-> p, limit |-> limit, inflight |-> inflight,
                err |-> farg[p]]
    /\ UNCHANGED <<initial, backoffRatio, tx, err, farg, nStart, nHandler, nFinish>>

\* ------------------------------------------------- the interceptor (Limiter)

\* An interceptor that defers finish before it looks at ok.
RejectThenFinish(p) ==
    /\ pc[p] = "rejected"
    /\ err' = [err EXCEPT ![p] = "Unavailable"]
    /\ pc' = [pc EXCEPT ![p] = "finish"]
    /\ UNCHANGED <<initial, backoffRatio, limit, inflight, mutex, tx, farg,
                   nStart, nHandler, nFinish, last>>

\* An interceptor that records the rejection and does not return.
RejectFallsThrough(p) ==
    /\ pc[p] = "rejected"
    /\ pc' = [pc EXCEPT ![p] = "handler"]
    /\ UNCHANGED <<initial, backoffRatio, limit, inflight, mutex, tx, err, farg,
                   nStart, nHandler, nFinish, last>>

\* if !ok: record the rejection and return codes.Unavailable.
Reject(p) ==
    /\ pc[p] = "rejected"
    /\ err' = [err EXCEPT ![p] = "Unavailable"]
    /\ pc' = [pc EXCEPT ![p] = "done"]
    /\ UNCHANGED <<initial, backoffRatio, limit, inflight, mutex, tx, farg,
                   nStart, nHandler, nFinish, last>>

\* The value the defer statement binds to finish's err parameter: Go evaluates
\* the arguments of a deferred call when the defer statement executes.
DeferredErr(p) == err[p]

\* stats.Record of the transaction, then defer l.finish(tx, err).
Defer(p) ==
    /\ pc[p] = "admitted"
    /\ farg' = [farg EXCEPT ![p] = DeferredErr(p)]
    /\ pc' = [pc EXCEPT ![p] = "handler"]
    /\ UNCHANGED <<initial, backoffRatio, limit, inflight, mutex, tx, err,
                   nStart, nHandler, nFinish, last>>

\* return handler(ctx, req): the handler runs and its error becomes the
\* named result; the deferred finish runs next.
Handler(p, e) ==
    /\ pc[p] = "handler"
    /\ err' = [err EXCEPT ![p] = e]
    /\ nHandler' = [nHandler EXCEPT ![p] = @ + 1]
    /\ pc' = [pc EXCEPT ![p] = "finish"]
    /\ UNCHANGED <<initial, backoffRatio, limit, inflight, mutex, tx, farg,
                   nStart, nFinish, last>>

Next ==
    \/ \E p \in Procs : StartLock(p) /\ UNCHANGED hist
    \/ \E p \in Procs : StartBody(p) /\ UNCHANGED hist
    \/ \E p \in Procs : Reject(p) /\ UNCHANGED hist
    \/ \E p \in Procs : Defer(p) /\ UNCHANGED hist
    \/ \E p \in Procs, e \in Errs : Handler(p, e) /\ UNCHANGED hist
    \/ \E p \in Procs : FinishLock(p) /\ UNCHANGED hist
    \/ \E p \in Procs : FinishBody(p) /\ UNCHANGED hist

Spec == Init /\ [][Next]_vars

\* --------------------------------------- start and finish called directly

\* A caller that holds a transaction calls l.finish(tx, e) with any error.
Settle(p, e) ==
    /\ pc[p] = "admitted"
    /\ farg' = [farg EXCEPT ![p] = e]
    /\ pc' = [pc EXCEPT ![p] = "finish"]
    /\ UNCHANGED <<initial, backoffRatio, limit, inflight, mutex, tx, err,
                   nStart, nHandler, nFinish, last>>

NextLimiter ==
    \/ \E p \in Procs : StartLock(p) /\ UNCHANGED hist
    \/ \E p \in Procs : StartBody(p) /\ UNCHANGED hist
    \/ \E p \in Procs, e \in Errs : Settle(p, e) /\ UNCHANGED hist
    \/ \E p \in Procs : FinishLock(p) /\ UNCHANGED hist
    \/ \E p \in Procs : FinishBody(p) /\ UNCHANGED hist

SpecLimiter == Init /\ [][NextLimiter]_vars

\* ------------------------------------------------------------- vocabulary

\* start() returned a transaction to request p.
Admitted(p) == tx[p] # NoTx

\* start() has returned to request p.
Started(p) == pc[p] \notin {"start", "start_cs"}

\* The body of finish has run for request p.
Settled(p) == Admitted(p) /\ pc[p] = "done"

\* finish took, or would take, its multiplicative-decrease case on error e.
IsOverload(e) == Code(e) \in OverloadCodes

\* This step is the body of start for p / the body of finish for p.
StartStep(p) == pc[p] = "start_cs" /\ pc'[p] # "start_cs"
FinishStep(p) == pc[p] = "finish_cs" /\ pc'[p] = "done"

\* ------------------------------------------------------------------ claims

\* C1: from a fresh limiter with initial ceiling L, as long as no finish has
\* run, the p-th call of start is admitted exactly when p <= L + 1.
C1_FirstCeilingPlusOneAdmitted ==
    (\A q \in Procs : nFinish[q] = 0)
        => \A p \in Procs : Started(p) => (Admitted(p) <=> p <= initial + 1)

\* Three starts on a limiter of ceiling 1 with no finish: two admitted, the
\* third rejected.
C1_Witness ==
    /\ initial = 1
    /\ \A q \in Procs : nFinish[q] = 0
    /\ Admitted(1) /\ Admitted(2)
    /\ Started(3) /\ ~Admitted(3)

\* C2: the limit is at least 1 in every reachable state, whatever the
\* interleaving of start and finish and whatever errors finish is given.
C2_LimitAtLeastOne == limit >= 1

\* An overload finish whose scaled limit was below 1 has run, and the limit
\* is 1.
C2_Witness ==
    /\ last.op = "finish"
    /\ IsOverload(last.err)
    /\ last.limit >= tx[last.p].limit
    /\ last.limit * backoffRatio[1] < backoffRatio[2]
    /\ limit = 1

\* n is max(1, floor(lim * backoffRatio)).
IsBackedOff(n, lim) ==
    LET num == backoffRatio[1]
        den == backoffRatio[2]
    IN  IF lim * num < den
          THEN n = 1
          ELSE n * den <= lim * num /\ lim * num < (n + 1) * den

\* C3: a finish with an overload error sets the limit to
\* max(1, floor(limit * backoffRatio)) when the limit is at least the limit
\* recorded in the transaction, and leaves it unchanged when the limit is
\* already below the recorded one.
C3_OverloadBacksOffOnce ==
    [][\A p \in Procs :
          (FinishStep(p) /\ IsOverload(farg[p])) =>
              IF limit >= tx[p].limit
                THEN IsBackedOff(limit', limit)
                ELSE limit' = limit]_vars

\* An overload finish has found the limit already below the one its
\* transaction recorded, and left it alone.
C3_Witness ==
    /\ last.op = "finish"
    /\ IsOverload(last.err)
    /\ last.limit < tx[last.p].limit
    /\ limit = last.limit

\* C4: a finish with a non-overload error raises the limit by exactly 1 if
\* inflight > limit/2 (integer division, which is 2 * inflight > limit) when
\* it runs, and otherwise leaves the limit unchanged.
C4_IncreaseIffAboveHalf ==
    [][\A p \in Procs :
          (FinishStep(p) /\ ~IsOverload(farg[p])) =>
              /\ (2 * inflight > limit) => limit' = limit + 1
              /\ ~(2 * inflight > limit) => limit' = limit]_vars

\* A non-overload finish has run with inflight at half the limit or less, and
\* the limit is what it was.
C4_Witness ==
    /\ last.op = "finish"
    /\ ~IsOverload(last.err)
    /\ last.inflight <= last.limit \div 2
    /\ limit = last.limit

\* C5: inflight is the number of requests admitted and not yet settled.
C5_InflightCountsOutstanding ==
    inflight = Cardinality({p \in Procs : Admitted(p) /\ ~Settled(p)})

\* C6: when the handler of an admitted request returns Canceled,
\* DeadlineExceeded or Unavailable, the error finish is called with is the
\* handler's error, and finish takes its overload case.
C6_FinishGetsHandlerError ==
    \A p \in Procs :
        (Admitted(p) /\ nFinish[p] > 0 /\ IsOverload(err[p])) =>
            /\ farg[p] = err[p]
            /\ IsOverload(farg[p])

\* C7: the interceptor calls start before the handler, calls finish exactly
\* once for every admitted request, after the handler has returned and
\* whatever it returned, and never calls finish for a rejected request.
C7_FinishOncePerAdmitted ==
    \A p \in Procs :
        /\ nHandler[p] > 0 => (nStart[p] = 1 /\ Admitted(p))
        /\ nFinish[p] <= 1
        /\ nFinish[p] = 1 => (Admitted(p) /\ nHandler[p] = 1)
        /\ (Started(p) /\ ~Admitted(p)) => nFinish[p] = 0
        /\ (pc[p] = "done" /\ Admitted(p)) => nFinish[p] = 1

\* One request was admitted, its handler failed and finish has run once for
\* it; another was rejected and has returned without a finish.
C7_Witness ==
    \E p, q \in Procs :
        /\ Settled(p) /\ err[p] = "Internal" /\ nHandler[p] = 1 /\ nFinish[p] = 1
        /\ pc[q] = "done" /\ ~Admitted(q) /\ nFinish[q] = 0

\* C8: a start that rejects changes neither inflight nor the limit and gives
\* no transaction; inflight changes only in a start that admits, by +1.
C8_RejectHasNoEffect ==
    [][/\ \A p \in Procs :
            (StartStep(p) /\ pc'[p] = "rejected") =>
                (inflight' = inflight /\ limit' = limit /\ tx' = tx /\ ~Admitted(p))
       /\ \A p \in Procs :
            (StartStep(p) /\ pc'[p] = "admitted") => inflight' = inflight + 1
       /\ inflight' # inflight =>
            \E p \in Procs : StartStep(p) /\ pc'[p] = "admitted"]_vars

\* A start has rejected, and the fields are as it found them.
C8_Witness ==
    /\ last.op = "start"
    /\ pc[last.p] = "rejected"
    /\ ~Admitted(last.p)
    /\ inflight = last.inflight
    /\ limit = last.limit

\* C9: a rejected request returns codes.Unavailable; its handler is never
\* called and start is not called again for it.
C9_RejectedReturnsUnavailable ==
    \A p \in Procs :
        /\ (Started(p) /\ ~Admitted(p)) => (nHandler[p] = 0 /\ nStart[p] = 1)
        /\ (pc[p] = "done" /\ ~Admitted(p)) => err[p] = "Unavailable"

\* A rejected request has returned Unavailable without running its handler.
C9_Witness ==
    \E p \in Procs :
        /\ pc[p] = "done" /\ ~Admitted(p)
        /\ err[p] = "Unavailable" /\ nHandler[p] = 0 /\ nStart[p] = 1

\* C10: the transaction of an admitted start holds inflight as incremented
\* and the limit, both as they are when that start returns.
C10_TicketIsSnapshot ==
    [][\A p \in Procs :
          (StartStep(p) /\ pc'[p] = "admitted") =>
              /\ tx'[p].inflight = inflight + 1
              /\ tx'[p].limit = limit
              /\ tx'[p].inflight = inflight'
              /\ tx'[p].limit = limit']_vars

\* A start has admitted a second request, and its transaction holds the
\* incremented inflight and the limit.
C10_Witness ==
    /\ last.op = "start"
    /\ Admitted(last.p)
    /\ last.inflight >= 1
    /\ tx[last.p].inflight = last.inflight + 1
    /\ tx[last.p].limit = last.limit

\* ------------------------------------------- the scenario of C11

\* Six callers on Limiter(4, 0.5): all six call start, one after the other,
\* and then the admitted ones call finish, in any order, each with an error
\* of one of the two classes of the switch in finish (ScenarioErrs).
ScenarioProcs == 1..6

InitScenario ==
    /\ initial = 4
    /\ backoffRatio = <<1, 2>>
    /\ limit = initial
    /\ inflight = 0
    /\ mutex = Free
    /\ pc = [p \in ScenarioProcs |-> "start"]
    /\ tx = [p \in ScenarioProcs |-> NoTx]
    /\ err = [p \in ScenarioProcs |-> "nil"]
    /\ farg = [p \in ScenarioProcs |-> "nil"]
    /\ nStart = [p \in ScenarioProcs |-> 0]
    /\ nHandler = [p \in ScenarioProcs |-> 0]
    /\ nFinish = [p \in ScenarioProcs |-> 0]
    /\ last = [op |-> "none", p |-> 0, limit |-> 0, inflight |-> 0, err |-> "nil"]
    /\ hist = NoHist

ScenarioStartLock(p) ==
    /\ \A q \in ScenarioProcs : q < p => pc[q] # "start"
    /\ StartLock(p)

ScenarioSettle(p, e) ==
    /\ \A q \in ScenarioProcs : Started(q)
    /\ Settle(p, e)

NextScenario ==
    \/ \E p \in ScenarioProcs : ScenarioStartLock(p) /\ UNCHANGED hist
    \/ \E p \in ScenarioProcs : StartBody(p) /\ UNCHANGED hist
    \/ \E p \in ScenarioProcs, e \in ScenarioErrs : ScenarioSettle(p, e) /\ UNCHANGED hist
    \/ \E p \in ScenarioProcs : FinishLock(p) /\ UNCHANGED hist
    \/ \E p \in ScenarioProcs : FinishBody(p) /\ UNCHANGED hist

SpecScenario == InitScenario /\ [][NextScenario]_vars

ScenarioSettled == {p \in ScenarioProcs : Settled(p)}

\* C11: on Limiter(4, 0.5) the first five starts are admitted and the sixth
\* is rejected; when one admitted request has then been finished, with an
\* overload error, the limit is 2; when a second has then been finished,
\* with a non-overload error and inflight > 1, the limit is 3.
C11_Scenario ==
    /\ \A p \in ScenarioProcs : Started(p) => (Admitted(p) <=> p <= 5)
    /\ (/\ Cardinality(ScenarioSettled) = 1
        /\ \A p \in ScenarioSettled : IsOverload(farg[p]))
           => limit = 2
    /\ (/\ Cardinality(ScenarioSettled) = 2
        /\ \E p \in ScenarioSettled : IsOverload(farg[p])
        /\ last.op = "finish" /\ ~IsOverload(last.err)
        /\ last.inflight > 1)
           => limit = 3

\* The whole scenario has run: six starts, the sixth rejected, an overload
\* finish and then a non-overload finish, and the limit is 3.
C11_Witness ==
    /\ \A p \in ScenarioProcs : Started(p) /\ (Admitted(p) <=> p <= 5)
    /\ Cardinality(ScenarioSettled) = 2
    /\ \E p \in ScenarioSettled : IsOverload(farg[p])
    /\ last.op = "finish" /\ ~IsOverload(last.err)
    /\ last.limit = 2 /\ last.inflight = 5
    /\ limit = 3

\* C12: only finish changes the limit.  Every start, admitting or
\* rejecting, leaves it; every step that changes it is the body of a finish,
\* either an overload finish whose guard limit >= tx.limit held, giving
\* max(1, floor(limit * backoffRatio)), or a non-overload finish whose gate
\* inflight > limit/2 held, giving limit + 1.
C12_OnlyFinishMovesLimit ==
    [][/\ \A p \in Procs : StartStep(p) => limit' = limit
       /\ limit' # limit =>
            \E p \in Procs :
                /\ FinishStep(p)
                /\ \/ /\ IsOverload(farg[p])
                      /\ limit >= tx[p].limit
                      /\ IsBackedOff(limit', limit)
                   \/ /\ ~IsOverload(farg[p])
                      /\ 2 * inflight > limit
                      /\ limit' = limit + 1]_vars

\* A start has rejected after a finish had run, and the limit is as that
\* start found it.
C12_Witness ==
    /\ last.op = "start"
    /\ pc[last.p] = "rejected"
    /\ \E q \in Procs : Settled(q)
    /\ limit = last.limit

\* ------------------------------------------- bursts of overload (C13)

\* The history after a step.  A finish that raises the limit is counted; a
\* start that admits records the count for its request, and so does a finish
\* that lowers the limit.
HistAfter ==
    [raises |-> IF limit' > limit THEN hist.raises + 1 ELSE hist.raises,
     atAdmit |-> [p \in Procs |->
                    IF StartStep(p) /\ pc'[p] = "admitted"
                      THEN hist.raises ELSE hist.atAdmit[p]],
     atLower |-> [p \in Procs |->
                    IF FinishStep(p) /\ limit' < limit
                      THEN hist.raises ELSE hist.atLower[p]]]

\* start and finish called directly, as in SpecLimiter, with the history kept.
NextBurst ==
    \/ \E p \in Procs : StartLock(p) /\ hist' = HistAfter
    \/ \E p \in Procs : StartBody(p) /\ hist' = HistAfter
    \/ \E p \in Procs, e \in Errs : Settle(p, e) /\ hist' = HistAfter
    \/ \E p \in Procs : FinishLock(p) /\ hist' = HistAfter
    \/ \E p \in Procs : FinishBody(p) /\ hist' = HistAfter

SpecBurst == Init /\ [][NextBurst]_vars

\* The finish of p lowered the limit.
Lowered(p) == hist.atLower[p] >= 0

\* No finish raised the limit between the start of p and its finish.
NoRaiseOver(p) == hist.atLower[p] = hist.atAdmit[p]

InCS(p) == pc[p] \in {"start_cs", "finish_cs"}

\* C14: start and finish exclude each other.  A request is in the body of
\* start or finish exactly when it holds the mutex, so at most one is; every
\* step that changes inflight, the limit or a transaction is taken by the
\* holder, which then releases the mutex; and no increment of inflight is
\* lost: inflight counts the admissions.
C14_MutualExclusion ==
    /\ [](/\ \A p \in Procs : InCS(p) <=> mutex = p
          /\ \A p, q \in Procs : (InCS(p) /\ InCS(q)) => p = q
          /\ inflight = Cardinality({p \in Procs : Admitted(p)}))
    /\ [][(limit' # limit \/ inflight' # inflight \/ tx' # tx) =>
             \E p \in Procs :
                 /\ mutex = p /\ InCS(p)
                 /\ mutex' = Free /\ pc'[p] \notin {"start_cs", "finish_cs"}]_vars

\* One request holds the mutex in the body of finish while another waits at
\* l.Lock() in finish and a third at l.Lock() in start.
C14_Witness ==
    \E p, q, r \in Procs :
        /\ mutex = p /\ pc[p] = "finish_cs"
        /\ pc[q] = "finish"
        /\ pc[r] = "start"

\* C15: finish takes exactly one of two paths: the multiplicative decrease
\* for an error whose status code is Canceled, DeadlineExceeded or
\* Unavailable, and the additive increase for every other error: nil, a
\* status error of another code, an error with no status.
C15_TwoPaths ==
    [][\A p \in Procs :
          FinishStep(p) =>
              /\ farg[p] \in Errs
              /\ farg[p] \in {"Canceled", "DeadlineExceeded", "Unavailable"} =>
                    /\ limit' <= limit
                    /\ IF limit >= tx[p].limit
                         THEN IsBackedOff(limit', limit)
                         ELSE limit' = limit
              /\ farg[p] \in {"nil", "plain", "Internal"} =>
                    /\ limit' >= limit
                    /\ limit' = (IF 2 * inflight > limit THEN limit + 1 ELSE limit)]_vars

\* A finish given an error with no status has raised a limit of 2 or more,
\* which the decrease would have lowered or left.
C15_Witness ==
    /\ last.op = "finish"
    /\ last.err = "plain"
    /\ last.limit >= 2
    /\ limit = last.limit + 1

\* ------------------------------------------- fair scheduling (C16)

\* start and finish called directly, finish with an error of either class
\* of its switch.
NextCalls ==
    \/ \E p \in Procs : StartLock(p) /\ UNCHANGED hist
    \/ \E p \in Procs : StartBody(p) /\ UNCHANGED hist
    \/ \E p \in Procs, e \in ScenarioErrs : Settle(p, e) /\ UNCHANGED hist
    \/ \E p \in Procs : FinishLock(p) /\ UNCHANGED hist
    \/ \E p \in Procs : FinishBody(p) /\ UNCHANGED hist

\* The scheduling Go gives, at the least: a goroutine that stays able to
\* take its next step in start or finish (to get the free mutex, to run the
\* body it holds the mutex for) takes it.  Nothing is assumed of the
\* callers: an admitted caller may never call finish.
FairLimiter ==
    \A p \in Procs :
        /\ WF_vars(StartLock(p) /\ UNCHANGED hist)
        /\ WF_vars(StartBody(p) /\ UNCHANGED hist)
        /\ WF_vars(FinishLock(p) /\ UNCHANGED hist)
        /\ WF_vars(FinishBody(p) /\ UNCHANGED hist)

SpecLimiterFair == Init /\ [][NextCalls]_vars /\ FairLimiter

\* C16: under fair scheduling every call of start returns, admitted or
\* rejected, every call of finish returns, and whoever holds the mutex
\* releases it.
C16_CallsReturn ==
    \A p \in Procs :
        /\ (pc[p] = "start") ~> Started(p)
        /\ (pc[p] = "finish") ~> (pc[p] = "done")
        /\ (mutex = p) ~> (mutex = Free)

\* All three requests have returned from start, one of them rejected, the
\* admitted ones have returned from finish, one after an overload error and
\* one after a nil error, and the mutex is free.
C16_Witness ==
    /\ mutex = Free
    /\ \A p \in Procs : pc[p] \in {"done", "rejected"}
    /\ \E p \in Procs : pc[p] = "rejected"
    /\ \E p \in Procs : Settled(p) /\ IsOverload(farg[p])
    /\ \E p \in Procs : Settled(p) /\ ~IsOverload(farg[p])

\* C17: the limiter never rejects when no work is outstanding: a start that
\* runs while every admitted request has finished is admitted.
C17_IdleLimiterAdmits ==
    [][\A p \in Procs :
          (StartStep(p) /\ \A q \in Procs : Admitted(q) => Settled(q))
              => pc'[p] = "admitted"]_vars

\* C18: every transaction start has issued holds an inflight count of at
\* least 1 and at most one more than the limit it holds.
C18_TicketWithinLimitPlusOne ==
    \A p \in Procs :
        Admitted(p) =>
            (1 <= tx[p].inflight /\ tx[p].inflight <= tx[p].limit + 1)

\* A request was admitted with inflight already at the limit: its
\* transaction holds limit + 1.
C18_Witness ==
    \E p \in Procs :
        /\ Admitted(p)
        /\ tx[p].limit >= 1
        /\ tx[p].inflight = tx[p].limit + 1

\* The finishes that have run with a non-overload error.
OtherSettles == {p \in Procs : Settled(p) /\ ~IsOverload(farg[p])}

\* C19: the limit is at most the initial limit plus the number of
\* non-overload finishes that have run.
C19_GrowthBoundedBySettles ==
    limit <= initial + Cardinality(OtherSettles)

\* Two non-overload finishes have run, and an overload one, and the limit
\* is the initial limit plus 2.
C19_Witness ==
    /\ Cardinality(OtherSettles) = 2
    /\ \E p \in Procs : Settled(p) /\ IsOverload(farg[p])
    /\ limit = initial + 2

====
